---- MODULE Spec2Model ----
(***************************************************************************)
(* External scanner of tree-sitter-spip (src/scanner.c, the current        *)
(* three-token version, lines 1-164) driven by a rule engine that calls    *)
(* it with a fresh set of valid symbols at every decision point.           *)
(*                                                                         *)
(* An input is a sequence of one-character strings.  Positions are         *)
(* 0-based offsets: position p is in front of input[p+1]; position         *)
(* Len(input) is end-of-stream.                                            *)
(***************************************************************************)
EXTENDS Integers, Sequences, FiniteSets, TLC

\* ------------------------------------------------------------------------
\* Bounds of the model
\* ------------------------------------------------------------------------

\* number of free characters that follow the stem of an input
MaxTail == 2

\* ------------------------------------------------------------------------
\* Characters
\* ------------------------------------------------------------------------

\* lexer->lookahead at end-of-stream is the code point 0
NUL == "NUL"

\* 'A' .. 'Z'
Upper ==
  {"A", "B", "C", "D", "E", "F", "G", "H", "I", "J", "K", "L", "M",
   "N", "O", "P", "Q", "R", "S", "T", "U", "V", "W", "X", "Y", "Z"}

\* characters of the free part of an input: the characters at_spip_start
\* and the scan function test for at any place ("B" standing for the
\* uppercase letters, " " for the whitespace characters, "/" and "{" for
\* the characters that may follow whitespace), and "x" for every other one;
\* "I", "N", "m" and "u" are tested after "<" or "</" only and come with
\* the stems
Alphabet ==
  {"(", "#", "B", "_", "<", ":", "/", "[", "{", " ", "x"}

\* how an input starts: nothing, a whitespace run, whitespace before one of
\* the characters "|", ")", "*", ">", the character "]" or "}", or one of
\* the prefixes after which at_spip_start has advanced and reads one more
\* character
Stems ==
  {<<>>,
   <<" ">>, <<"\t", "\n", "\r">>,
   <<" ", "|">>, <<" ", ")">>, <<" ", "*">>, <<" ", ">">>,
   <<"]">>, <<"}">>, <<"(">>, <<"#">>, <<"<">>,
   <<"<", "I">>, <<"<", "m">>, <<"<", "/">>,
   <<"<", "/", "m">>, <<"<", "/", "/">>,
   <<"<", "I", "N">>, <<"<", "m", "u">>, <<"<", "/", "m", "u">>}

\* the shorthand balise alone
ScenarioA == <<"#", "T", "I", "T", "R", "E">>

\* a shorthand balise inside an HTML element
ScenarioC ==
  <<"<", "p", ">", "#", "T", "I", "T", "R", "E", "<", "/", "p", ">">>

\* HTML elements whose names start with "B"
HtmlB == {<<"<", "B", "R", ">">>, <<"<", "/", "B", "O", "D", "Y", ">">>}

\* texts explored besides the stems and their free characters
Corpus == {ScenarioA, ScenarioC} \cup HtmlB

\* enum TokenType
CONTENT_CHAR == "CONTENT_CHAR"
SPIP_WS == "SPIP_WS"
SHORTHAND_LBRACE == "SHORTHAND_LBRACE"
TokenType == {CONTENT_CHAR, SPIP_WS, SHORTHAND_LBRACE}

\* result_symbol of a call that returned false
NoSymbol == "none"

\* ------------------------------------------------------------------------
\* TSLexer as the scanner uses it: a read position, the token-end mark and
\* the token start
\* ------------------------------------------------------------------------

\* token end not marked yet
Unmarked == -1

\* the lexer at the start of a call at position p; n counts the calls of
\* advance made since
LexerAt(p) == [cur |-> p, mark |-> Unmarked, start |-> p, n |-> 0]

\* lexer->eof(lexer)
eof(in, lx) == lx.cur >= Len(in)

\* lexer->lookahead
lookahead(in, lx) == IF lx.cur < Len(in) THEN in[lx.cur + 1] ELSE NUL

\* lexer->advance(lexer, true): the character passed is skipped, the token
\* starts after it
advance_skip(in, lx) ==
  LET c == IF lx.cur < Len(in) THEN lx.cur + 1 ELSE lx.cur IN
  [lx EXCEPT !.cur = c, !.start = c, !.n = lx.n + 1]

\* lexer->advance(lexer, false): no effect at end-of-stream; the token
\* start stays
advance(in, lx) ==
  [lx EXCEPT !.cur = IF lx.cur < Len(in) THEN lx.cur + 1 ELSE lx.cur,
             !.n = lx.n + 1]

\* lexer->mark_end(lexer)
mark_end(lx) == [lx EXCEPT !.mark = lx.cur]

\* end of the token when the call returns: the mark, or the read position
\* when mark_end was never called
TokenEnd(lx) == IF lx.mark = Unmarked THEN lx.cur ELSE lx.mark

\* ------------------------------------------------------------------------
\* scanner.c
\* ------------------------------------------------------------------------

\* tree_sitter_spip_external_scanner_create: the payload
create == "NULL"

\* tree_sitter_spip_external_scanner_serialize: the number of bytes written
\* to the buffer
serialize(payload) == 0

is_ws(c) == c \in {" ", "\t", "\n", "\r"}

\* variant of spip_start_paren that peeks without marking the token end
spip_start_paren_unmarked(in, lx) ==
  LET l1 == advance(in, lx) IN
  [ret |-> lookahead(in, l1) = "#", lx |-> l1]

\* case '(' of at_spip_start
spip_start_paren(in, lx) ==
  LET l1 == advance(in, mark_end(lx)) IN
  [ret |-> lookahead(in, l1) = "#", lx |-> l1]

\* variant of spip_start_hash without the "#_" case
spip_start_hash_no_underscore(in, lx) ==
  LET l1 == advance(in, mark_end(lx))
      c2 == lookahead(in, l1)
  IN [ret |-> c2 \in Upper, lx |-> l1]

\* variant of spip_start_hash that takes "#" for a tag only at the very
\* start of the text
spip_start_hash_at_text_start(in, lx) ==
  LET l1 == advance(in, mark_end(lx))
      c2 == lookahead(in, l1)
  IN [ret |-> lx.cur = 0 /\ ((c2 \in Upper) \/ (c2 = "_")), lx |-> l1]

\* case '#' of at_spip_start
spip_start_hash(in, lx) ==
  LET l1 == advance(in, mark_end(lx))
      c2 == lookahead(in, l1)
  IN [ret |-> (c2 \in Upper) \/ (c2 = "_"), lx |-> l1]

\* case '<' of at_spip_start
spip_start_angle(in, lx) ==
  LET l1 == advance(in, mark_end(lx)) IN
  IF lookahead(in, l1) = "B" THEN [ret |-> TRUE, lx |-> l1]
  ELSE IF lookahead(in, l1) = "I" THEN
    LET l2 == advance(in, l1) IN
    [ret |-> lookahead(in, l2) = "N", lx |-> l2]
  ELSE IF lookahead(in, l1) = "m" THEN
    LET l2 == advance(in, l1) IN
    [ret |-> lookahead(in, l2) = "u", lx |-> l2]
  ELSE IF lookahead(in, l1) = ":" THEN [ret |-> TRUE, lx |-> l1]
  ELSE IF lookahead(in, l1) = "/" THEN
    LET l2 == advance(in, l1) IN
    IF lookahead(in, l2) = "B" THEN [ret |-> TRUE, lx |-> l2]
    ELSE IF lookahead(in, l2) = "m" THEN
      LET l3 == advance(in, l2) IN
      [ret |-> lookahead(in, l3) = "u", lx |-> l3]
    ELSE IF lookahead(in, l2) = "/" THEN
      LET l3 == advance(in, l2) IN
      [ret |-> lookahead(in, l3) = "B", lx |-> l3]
    ELSE [ret |-> FALSE, lx |-> l2]
  ELSE [ret |-> FALSE, lx |-> l1]

\* variant of at_spip_start that takes the braces for openers as well
at_spip_start_blocks_braces(in, lx) ==
  LET c == lookahead(in, lx) IN
  CASE c = "(" -> spip_start_paren(in, lx)
    [] c = "#" -> spip_start_hash(in, lx)
    [] c = "<" -> spip_start_angle(in, lx)
    [] c \in {"[", "]", "{", "}"} -> [ret |-> TRUE, lx |-> lx]
    [] OTHER -> [ret |-> FALSE, lx |-> lx]

\* the result and the lexer it leaves behind
at_spip_start(in, lx) ==
  LET c == lookahead(in, lx) IN
  CASE c = "(" -> spip_start_paren(in, lx)
    [] c = "#" -> spip_start_hash(in, lx)
    [] c = "<" -> spip_start_angle(in, lx)
    [] c = "[" -> [ret |-> TRUE, lx |-> lx]
    [] c = "]" -> [ret |-> TRUE, lx |-> lx]
    [] OTHER -> [ret |-> FALSE, lx |-> lx]

\* return true / return false of the scan function
Accept(sym, lx) == [ok |-> TRUE, sym |-> sym, lx |-> lx]
Decline(lx) == [ok |-> FALSE, sym |-> NoSymbol, lx |-> lx]

\* variant of shorthand_lbrace that marks the end without advancing
shorthand_lbrace_no_advance(in, lx) ==
  Accept(SHORTHAND_LBRACE, mark_end(mark_end(lx)))

\* the SHORTHAND_LBRACE block
shorthand_lbrace(in, lx) ==
  Accept(SHORTHAND_LBRACE, mark_end(advance(in, mark_end(lx))))

\* while (is_ws(lexer->lookahead) && !lexer->eof(lexer)) advance
RECURSIVE skip_ws(_, _)
skip_ws(in, lx) ==
  IF is_ws(lookahead(in, lx)) /\ ~eof(in, lx)
  THEN skip_ws(in, advance(in, lx))
  ELSE lx

\* variant of followed_by_spip without the self-close marker "/"
followed_by_spip_no_slash(next) == next \in {"{", "|", ")", "*", ">"}

\* switch (next) of the SPIP_WS block
followed_by_spip(next) == next \in {"{", "|", ")", "*", ">", "/"}

\* variant of spip_ws that does not mark the token end before the run
spip_ws_unmarked(in, lx) ==
  LET l1 == skip_ws(in, lx) IN
  IF followed_by_spip(lookahead(in, l1))
  THEN Accept(SPIP_WS, mark_end(l1))
  ELSE Decline(l1)

\* the SPIP_WS block
spip_ws(in, lx) ==
  LET l1 == skip_ws(in, mark_end(lx)) IN
  IF followed_by_spip(lookahead(in, l1))
  THEN Accept(SPIP_WS, mark_end(l1))
  ELSE Decline(l1)

\* variant of content_char that does not test valid_symbols[CONTENT_CHAR]
content_char_ungated(in, valid, lx) ==
  LET r == at_spip_start(in, lx) IN
  IF r.ret THEN Decline(r.lx)
  ELSE Accept(CONTENT_CHAR, mark_end(advance(in, mark_end(r.lx))))

\* variant of content_char that advances twice to consume
content_char_two_advances(in, valid, lx) ==
  IF CONTENT_CHAR \notin valid THEN Decline(lx)
  ELSE LET r == at_spip_start(in, lx) IN
       IF r.ret THEN Decline(r.lx)
       ELSE Accept(CONTENT_CHAR,
                   mark_end(advance(in, advance(in, mark_end(r.lx)))))

\* variant of content_char that marks the end without advancing
content_char_no_advance(in, valid, lx) ==
  IF CONTENT_CHAR \notin valid THEN Decline(lx)
  ELSE LET r == at_spip_start(in, lx) IN
       IF r.ret THEN Decline(r.lx)
       ELSE Accept(CONTENT_CHAR, mark_end(mark_end(r.lx)))

\* the CONTENT_CHAR block
content_char(in, valid, lx) ==
  IF CONTENT_CHAR \notin valid THEN Decline(lx)
  ELSE LET r == at_spip_start(in, lx) IN
       IF r.ret THEN Decline(r.lx)
       ELSE Accept(CONTENT_CHAR, mark_end(advance(in, mark_end(r.lx))))

\* variant of scan that tries the CONTENT_CHAR block before the
\* SHORTHAND_LBRACE block
scan_content_first(in, valid, lx) ==
  IF eof(in, lx) THEN Decline(lx)
  ELSE IF SPIP_WS \in valid /\ is_ws(lookahead(in, lx))
    THEN spip_ws(in, lx)
  ELSE IF CONTENT_CHAR \in valid
    THEN content_char(in, valid, lx)
  ELSE IF SHORTHAND_LBRACE \in valid /\ lookahead(in, lx) = "{"
    THEN shorthand_lbrace(in, lx)
  ELSE Decline(lx)

\* variant of scan whose SHORTHAND_LBRACE block ignores valid_symbols
scan_gate_unconditional(in, valid, lx) ==
  IF eof(in, lx) THEN Decline(lx)
  ELSE IF lookahead(in, lx) = "{"
    THEN shorthand_lbrace(in, lx)
  ELSE IF SPIP_WS \in valid /\ is_ws(lookahead(in, lx))
    THEN spip_ws(in, lx)
  ELSE content_char(in, valid, lx)

\* variant of scan without the end-of-stream test
scan_no_eof_test(in, valid, lx) ==
  IF SHORTHAND_LBRACE \in valid /\ lookahead(in, lx) = "{"
    THEN shorthand_lbrace(in, lx)
  ELSE IF SPIP_WS \in valid /\ is_ws(lookahead(in, lx))
    THEN spip_ws(in, lx)
  ELSE content_char(in, valid, lx)

\* variant of scan that goes on to the CONTENT_CHAR block when the
\* SPIP_WS block finds no follow character
scan_ws_fallthrough(in, valid, lx) ==
  IF eof(in, lx) THEN Decline(lx)
  ELSE IF SHORTHAND_LBRACE \in valid /\ lookahead(in, lx) = "{"
    THEN shorthand_lbrace(in, lx)
  ELSE IF SPIP_WS \in valid /\ is_ws(lookahead(in, lx))
    THEN (IF spip_ws(in, lx).ok
          THEN spip_ws(in, lx)
          ELSE content_char(in, valid, spip_ws(in, lx).lx))
  ELSE content_char(in, valid, lx)

\* tree_sitter_spip_external_scanner_scan; valid is the set of token types
\* whose valid_symbols entry is true
scan(in, valid, lx) ==
  IF eof(in, lx) THEN Decline(lx)
  ELSE IF SHORTHAND_LBRACE \in valid /\ lookahead(in, lx) = "{"
    THEN shorthand_lbrace(in, lx)
  ELSE IF SPIP_WS \in valid /\ is_ws(lookahead(in, lx))
    THEN spip_ws(in, lx)
  ELSE content_char(in, valid, lx)

\* ------------------------------------------------------------------------
\* scanner.c, the second text of the scanner (two token types) and the
\* third (the SPIP_WS block looks for an opener after the run)
\* ------------------------------------------------------------------------

\* case '#' of at_spip_start in the second and the third text
spip_start_hash_2(in, lx) ==
  LET l1 == advance(in, mark_end(lx))
      c2 == lookahead(in, l1)
  IN [ret |-> c2 \in Upper, lx |-> l1]

\* at_spip_start of the second text
at_spip_start_2(in, lx) ==
  LET c == lookahead(in, lx) IN
  CASE c = "(" -> spip_start_paren(in, lx)
    [] c = "#" -> spip_start_hash_2(in, lx)
    [] c = "<" -> spip_start_angle(in, lx)
    [] c = "[" -> [ret |-> TRUE, lx |-> lx]
    [] c = "]" -> [ret |-> TRUE, lx |-> lx]
    [] OTHER -> [ret |-> FALSE, lx |-> lx]

\* the CONTENT_CHAR block of the second text
content_char_2(in, valid, lx) ==
  IF CONTENT_CHAR \notin valid THEN Decline(lx)
  ELSE LET r == at_spip_start_2(in, lx) IN
       IF r.ret THEN Decline(r.lx)
       ELSE Accept(CONTENT_CHAR, mark_end(advance(in, mark_end(r.lx))))

\* tree_sitter_spip_external_scanner_scan of the second text
scan_2(in, valid, lx) ==
  IF eof(in, lx) THEN Decline(lx)
  ELSE IF SPIP_WS \in valid /\ is_ws(lookahead(in, lx))
    THEN spip_ws(in, lx)
  ELSE content_char_2(in, valid, lx)

\* case '<' of at_spip_start in the third text
spip_start_angle_3(in, lx) ==
  LET l1 == advance(in, mark_end(lx)) IN
  IF lookahead(in, l1) = "B" THEN
    LET l2 == advance(in, l1) IN
    [ret |-> lookahead(in, l2) \in {"O", "_"}, lx |-> l2]
  ELSE IF lookahead(in, l1) = "/" THEN
    LET l2 == advance(in, l1) IN
    IF lookahead(in, l2) = "B" THEN
      LET l3 == advance(in, l2) IN
      [ret |-> lookahead(in, l3) \in {"O", "_"}, lx |-> l3]
    ELSE IF lookahead(in, l2) = "/" THEN
      LET l3 == advance(in, l2) IN
      [ret |-> lookahead(in, l3) = "B", lx |-> l3]
    ELSE IF lookahead(in, l2) = "m" THEN
      LET l3 == advance(in, l2) IN
      IF lookahead(in, l3) # "u" THEN [ret |-> FALSE, lx |-> l3]
      ELSE LET l4 == advance(in, l3) IN
        IF lookahead(in, l4) # "l" THEN [ret |-> FALSE, lx |-> l4]
        ELSE LET l5 == advance(in, l4) IN
          IF lookahead(in, l5) # "t" THEN [ret |-> FALSE, lx |-> l5]
          ELSE LET l6 == advance(in, l5) IN
            [ret |-> lookahead(in, l6) = "i", lx |-> l6]
    ELSE [ret |-> FALSE, lx |-> l2]
  ELSE IF lookahead(in, l1) = "I" THEN
    LET l2 == advance(in, l1) IN
    [ret |-> lookahead(in, l2) = "N", lx |-> l2]
  ELSE IF lookahead(in, l1) = "m" THEN
    LET l2 == advance(in, l1) IN
    [ret |-> lookahead(in, l2) = "u", lx |-> l2]
  ELSE IF lookahead(in, l1) = ":" THEN [ret |-> TRUE, lx |-> l1]
  ELSE [ret |-> FALSE, lx |-> l1]

\* at_spip_start of the third text
at_spip_start_3(in, lx) ==
  LET c == lookahead(in, lx) IN
  CASE c = "<" -> spip_start_angle_3(in, lx)
    [] c = "(" -> spip_start_paren(in, lx)
    [] c = "#" -> spip_start_hash_2(in, lx)
    [] c = "[" -> [ret |-> TRUE, lx |-> lx]
    [] c = "]" -> [ret |-> TRUE, lx |-> lx]
    [] OTHER -> [ret |-> FALSE, lx |-> lx]

\* the SPIP_WS block of the third text: switch (next) with the default
\* case followed_by_spip = at_spip_start(lexer)
spip_ws_3(in, lx) ==
  LET l1 == skip_ws(in, mark_end(lx)) IN
  IF lookahead(in, l1) \in {"{", "|", ")", "*", ">"}
  THEN Accept(SPIP_WS, mark_end(l1))
  ELSE LET r == at_spip_start_3(in, l1) IN
       IF r.ret THEN Accept(SPIP_WS, mark_end(r.lx)) ELSE Decline(r.lx)

\* the CONTENT_CHAR block of the third text
content_char_3(in, valid, lx) ==
  IF CONTENT_CHAR \notin valid THEN Decline(lx)
  ELSE LET r == at_spip_start_3(in, lx) IN
       IF r.ret THEN Decline(r.lx)
       ELSE Accept(CONTENT_CHAR, mark_end(advance(in, mark_end(r.lx))))

\* tree_sitter_spip_external_scanner_scan of the third text
scan_3(in, valid, lx) ==
  IF eof(in, lx) THEN Decline(lx)
  ELSE IF SPIP_WS \in valid /\ is_ws(lookahead(in, lx))
    THEN spip_ws_3(in, lx)
  ELSE content_char_3(in, valid, lx)

\* ------------------------------------------------------------------------
\* grammar.js
\* ------------------------------------------------------------------------

\* a rule does not match
NoMatch == -1

\* the character at position p of the text in, NUL at end-of-stream
at(in, p) == IF p < Len(in) THEN in[p + 1] ELSE NUL

\* the text in continues with the literal lit at position p
literal(in, p, lit) ==
  /\ p + Len(lit) <= Len(in)
  /\ \A i \in 1..Len(lit) : in[p + i] = lit[i]

\* the end of the longest run of characters of the class cls from p on
RECURSIVE run_end(_, _, _)
run_end(in, p, cls) ==
  IF p < Len(in) /\ in[p + 1] \in cls THEN run_end(in, p + 1, cls) ELSE p

\* 0-9
Digit == {"0", "1", "2", "3", "4", "5", "6", "7", "8", "9"}

\* the literal each alternative of template starts with (content starts
\* with the external token _content_char)
template_starts ==
  {<<"[", "(", "#", "R", "E", "M", ")">>,
   <<"<", "B", "O", "U", "C", "L", "E", "_">>,
   <<"<", "/", "B", "O", "U", "C", "L", "E", "_">>,
   <<"<", "B", "_">>,
   <<"<", "/", "B", "_">>,
   <<"<", "/", "/", "B", "_">>,
   <<"<", "I", "N", "C", "L", "U", "R", "E">>,
   <<"<", "m", "u", "l", "t", "i", ">">>,
   <<"<", ":">>,
   <<"(", "#">>,
   <<"#">>,
   <<"[">>,
   <<"]">>}

\* variant of balise_name for the pattern [A-Z]+
balise_name_letters_only(in, p) ==
  IF at(in, p) \in Upper THEN run_end(in, p + 1, Upper) ELSE NoMatch

\* balise_name: [A-Z][A-Z0-9_]*, the end of the match
balise_name(in, p) ==
  IF at(in, p) \in Upper
  THEN run_end(in, p + 1, Upper \cup Digit \cup {"_"})
  ELSE NoMatch

\* optional(/\*{1,2}/), the end of the match
optional_stars(in, p) ==
  IF at(in, p) = "*"
  THEN (IF at(in, p + 1) = "*" THEN p + 2 ELSE p + 1)
  ELSE p

\* balise_shorthand: "#" balise_name optional(/\*{1,2}/), the end of the
\* match
balise_shorthand(in, p) ==
  IF at(in, p) = "#" /\ balise_name(in, p + 1) # NoMatch
  THEN optional_stars(in, balise_name(in, p + 1))
  ELSE NoMatch

\* a-z
Lower ==
  {"a", "b", "c", "d", "e", "f", "g", "h", "i", "j", "k", "l", "m",
   "n", "o", "p", "q", "r", "s", "t", "u", "v", "w", "x", "y", "z"}

\* the characters the texts of the model are made of
Universe ==
  Upper \cup Lower \cup Digit
    \cup {"(", ")", "#", "_", "<", ">", ":", "/", "[", "]", "{", "}", "|",
          "*", "!", "=", "?", ",", " ", "\t", "\n", "\r"}

\* the characters of /[^{}]/
TextChars == Universe \ {"{", "}"}

\* /[^{}]+/, the end of the match
text_run(in, p) ==
  IF at(in, p) \in TextChars THEN run_end(in, p + 1, TextChars) ELSE NoMatch

\* variant of _deep_brace_content that takes a brace pair as well
deep_brace_content_nesting(in, p) ==
  IF at(in, p) = "{"
  THEN LET q == IF text_run(in, p + 1) # NoMatch
                THEN text_run(in, p + 1) ELSE p + 1
       IN IF at(in, q) = "}" THEN q + 1 ELSE NoMatch
  ELSE text_run(in, p)

\* _deep_brace_content: /[^{}]+/
deep_brace_content(in, p) == text_run(in, p)

\* one alternative of _nested_brace_content: /[^{}]+/ or
\* "{" optional(_deep_brace_content) "}"
nested_brace_item(in, p) ==
  IF at(in, p) = "{"
  THEN LET q == IF deep_brace_content(in, p + 1) # NoMatch
                THEN deep_brace_content(in, p + 1) ELSE p + 1
       IN IF at(in, q) = "}" THEN q + 1 ELSE NoMatch
  ELSE text_run(in, p)

\* the repetition of _nested_brace_content from p on
RECURSIVE nested_brace_more(_, _)
nested_brace_more(in, p) ==
  IF nested_brace_item(in, p) = NoMatch
  THEN p
  ELSE nested_brace_more(in, nested_brace_item(in, p))

\* _nested_brace_content: repeat1 of its alternatives
nested_brace_content(in, p) ==
  IF nested_brace_item(in, p) = NoMatch
  THEN NoMatch
  ELSE nested_brace_more(in, nested_brace_item(in, p))

\* one alternative of param_content, criteria_value and include_params:
\* /[^{}]+/ or "{" optional(_nested_brace_content) "}"
body_item(in, p) ==
  IF at(in, p) = "{"
  THEN LET q == IF nested_brace_content(in, p + 1) # NoMatch
                THEN nested_brace_content(in, p + 1) ELSE p + 1
       IN IF at(in, q) = "}" THEN q + 1 ELSE NoMatch
  ELSE text_run(in, p)

\* the repetition of a body from p on
RECURSIVE body_more(_, _)
body_more(in, p) ==
  IF body_item(in, p) = NoMatch THEN p ELSE body_more(in, body_item(in, p))

\* param_content: repeat1 of its alternatives
param_content(in, p) ==
  IF body_item(in, p) = NoMatch THEN NoMatch ELSE body_more(in, body_item(in, p))

\* criteria_value: the same pattern as param_content
criteria_value(in, p) ==
  IF body_item(in, p) = NoMatch THEN NoMatch ELSE body_more(in, body_item(in, p))

\* include_params: the same pattern as param_content
include_params(in, p) ==
  IF body_item(in, p) = NoMatch THEN NoMatch ELSE body_more(in, body_item(in, p))

\* balise_params and filter_params: "{" optional(param_content) "}"
balise_params(in, p) ==
  IF at(in, p) = "{"
  THEN LET q == IF param_content(in, p + 1) # NoMatch
                THEN param_content(in, p + 1) ELSE p + 1
       IN IF at(in, q) = "}" THEN q + 1 ELSE NoMatch
  ELSE NoMatch

\* criteria: "{" criteria_value "}"
criteria(in, p) ==
  IF at(in, p) = "{" /\ criteria_value(in, p + 1) # NoMatch
       /\ at(in, criteria_value(in, p + 1)) = "}"
  THEN criteria_value(in, p + 1) + 1
  ELSE NoMatch

\* include_param_block: "{" include_params "}"
include_param_block(in, p) ==
  IF at(in, p) = "{" /\ include_params(in, p + 1) # NoMatch
       /\ at(in, include_params(in, p + 1)) = "}"
  THEN include_params(in, p + 1) + 1
  ELSE NoMatch

\* the end of one or more characters of the class cls from p on
run1(in, p, cls) ==
  IF at(in, p) \in cls THEN run_end(in, p + 1, cls) ELSE NoMatch

\* variant of loop_type for the pattern /[A-Za-z0-9_]*/
loop_type_starred(in, p) ==
  run_end(in, p, Upper \cup Lower \cup Digit \cup {"_"})

\* loop_type: /[A-Z][A-Za-z0-9_]*/
loop_type(in, p) ==
  IF at(in, p) \in Upper
  THEN run_end(in, p + 1, Upper \cup Lower \cup Digit \cup {"_"})
  ELSE NoMatch

\* loop_name: /[a-zA-Z0-9_]+/
loop_name(in, p) == run1(in, p, Upper \cup Lower \cup Digit \cup {"_"})

\* the pattern of comment: /[^\]]+/
comment_text(in, p) == run1(in, p, Universe \ {"]"})

\* lang_code: /\[[a-z]{2}\]/
lang_code(in, p) ==
  IF /\ at(in, p) = "[" /\ at(in, p + 1) \in Lower
     /\ at(in, p + 2) \in Lower /\ at(in, p + 3) = "]"
  THEN p + 4 ELSE NoMatch

\* lang_code_brace: /\{[a-z]{2}\}/
lang_code_brace(in, p) ==
  IF /\ at(in, p) = "{" /\ at(in, p + 1) \in Lower
     /\ at(in, p + 2) \in Lower /\ at(in, p + 3) = "}"
  THEN p + 4 ELSE NoMatch

\* one round of multi_text: [^\[{<] or <[^\/\[{<] or <\/[^m]
multi_text_item(in, p) ==
  IF at(in, p) \in Universe \ {"[", "{", "<"} THEN p + 1
  ELSE IF at(in, p) = "<" /\ at(in, p + 1) \in Universe \ {"/", "[", "{", "<"}
    THEN p + 2
  ELSE IF at(in, p) = "<" /\ at(in, p + 1) = "/"
            /\ at(in, p + 2) \in Universe \ {"m"}
    THEN p + 3
  ELSE NoMatch

RECURSIVE multi_text_more(_, _)
multi_text_more(in, p) ==
  IF multi_text_item(in, p) = NoMatch
  THEN p
  ELSE multi_text_more(in, multi_text_item(in, p))

\* multi_text: /([^\[{<]|<[^\/\[{<]|<\/[^m])+/
multi_text(in, p) ==
  IF multi_text_item(in, p) = NoMatch
  THEN NoMatch
  ELSE multi_text_more(in, multi_text_item(in, p))

\* [a-zA-Z_][a-zA-Z0-9_]* in the pattern of translation
translation_word(in, p) ==
  IF at(in, p) \in Upper \cup Lower \cup {"_"}
  THEN run_end(in, p + 1, Upper \cup Lower \cup Digit \cup {"_"})
  ELSE NoMatch

\* (sep word)* in the pattern of translation, sep being ":" or "|"
RECURSIVE translation_more(_, _, _)
translation_more(in, p, sep) ==
  IF at(in, p) = sep /\ translation_word(in, p + 1) # NoMatch
  THEN translation_more(in, translation_word(in, p + 1), sep)
  ELSE p

\* the pattern of translation: word(:word)*(\|word)*
translation_key(in, p) ==
  IF translation_word(in, p) = NoMatch
  THEN NoMatch
  ELSE translation_more(in, translation_more(in, translation_word(in, p), ":"), "|")

\* balise_namespace: /_[a-zA-Z]+:/
balise_namespace(in, p) ==
  IF /\ at(in, p) = "_"
     /\ run1(in, p + 1, Upper \cup Lower) # NoMatch
     /\ at(in, run1(in, p + 1, Upper \cup Lower)) = ":"
  THEN run1(in, p + 1, Upper \cup Lower) + 1
  ELSE NoMatch

\* /\*{1,2}/
stars(in, p) ==
  IF at(in, p) = "*"
  THEN (IF at(in, p + 1) = "*" THEN p + 2 ELSE p + 1)
  ELSE NoMatch

\* filter_name: /[a-zA-Z_!=<>?*][a-zA-Z0-9_!=<>?*]*/
filter_name(in, p) ==
  IF at(in, p) \in Upper \cup Lower \cup {"_", "!", "=", "<", ">", "?", "*"}
  THEN run_end(in, p + 1,
               Upper \cup Lower \cup Digit \cup {"_", "!", "=", "<", ">", "?", "*"})
  ELSE NoMatch

\* the string literals of the rules
Literals ==
  {<<"[", "(", "#", "R", "E", "M", ")">>, <<"]">>,
   <<"<", "B", "O", "U", "C", "L", "E", "_">>, <<"(">>, <<")">>, <<">">>,
   <<"<", "/", "B", "O", "U", "C", "L", "E", "_">>,
   <<"<", "B", "_">>, <<"<", "/", "B", "_">>, <<"<", "/", "/", "B", "_">>,
   <<"{">>, <<"}">>,
   <<"<", "I", "N", "C", "L", "U", "R", "E">>, <<"/", ">">>,
   <<"<", "m", "u", "l", "t", "i", ">">>,
   <<"<", "/", "m", "u", "l", "t", "i", ">">>,
   <<"<", ":">>, <<":", ">">>, <<"(", "#">>, <<"#">>, <<"|">>, <<"[">>}

\* the patterns of the rules, by the name of the rule they are in
Patterns ==
  {"comment", "loop_name", "loop_type", "criteria_value", "lang_code",
   "lang_code_brace", "multi_text", "translation", "balise_namespace",
   "balise_name", "stars", "filter_name"}

\* the end of the match of the string literal lit at p
literal_end(lit, in, p) ==
  IF literal(in, p, lit) THEN p + Len(lit) ELSE NoMatch

\* the end of the match of the pattern of the rule t at p
pattern(t, in, p) ==
  CASE t = "comment" -> comment_text(in, p)
    [] t = "comment" -> comment_text(in, p)
    [] t = "loop_name" -> loop_name(in, p)
    [] t = "loop_type" -> loop_type(in, p)
    [] t = "criteria_value" -> text_run(in, p)
    [] t = "lang_code" -> lang_code(in, p)
    [] t = "lang_code_brace" -> lang_code_brace(in, p)
    [] t = "multi_text" -> multi_text(in, p)
    [] t = "translation" -> translation_key(in, p)
    [] t = "balise_namespace" -> balise_namespace(in, p)
    [] t = "balise_name" -> balise_name(in, p)
    [] t = "stars" -> stars(in, p)
    [] t = "filter_name" -> filter_name(in, p)

\* ------------------------------------------------------------------------
\* State: the input, the cursor of the driving loop and the last call
\* ------------------------------------------------------------------------

VARIABLES
  input,     \* the text being parsed
  pos,       \* cursor of the driving loop
  last,      \* the scanner call made at the cursor, if any
  emitted,   \* the text of the tokens and constructs committed so far
  saved      \* length of the scanner state serialized last

vars == <<input, pos, last, emitted, saved>>

NoCall ==
  [called |-> FALSE, start |-> 0, valid |-> {}, ok |-> FALSE,
   sym |-> NoSymbol, end |-> 0, peek |-> 0]

RECURSIVE SeqsOfLen(_, _)
SeqsOfLen(S, n) ==
  IF n = 0 THEN {<<>>}
  ELSE {Append(s, c) : s \in SeqsOfLen(S, n - 1), c \in S}

Tails == UNION {SeqsOfLen(Alphabet, n) : n \in 0..MaxTail}

Inputs == {stem \o tail : stem \in Stems, tail \in Tails} \cup Corpus

Init ==
  /\ input \in Inputs
  /\ pos = 0
  /\ last = NoCall
  /\ emitted = <<>>
  /\ saved = 0

\* The rule engine asks for one token with the set valid of acceptable
\* kinds.  On true the token runs from the lexer's token start to its token
\* end, the cursor moves to the token end and the scanner state is
\* serialized; on false the engine resets the lexer to where the call
\* started.
Scan(valid) ==
  LET r == scan(input, valid, LexerAt(pos)) IN
  /\ last' = [called |-> TRUE, start |-> pos, valid |-> valid, ok |-> r.ok,
              sym |-> r.sym, end |-> TokenEnd(r.lx), peek |-> r.lx.cur]
  /\ pos' = IF r.ok THEN TokenEnd(r.lx) ELSE pos
  /\ emitted' = IF r.ok
                THEN emitted \o SubSeq(input, r.lx.start + 1, TokenEnd(r.lx))
                ELSE emitted
  /\ saved' = IF r.ok THEN serialize(create) ELSE saved
  /\ UNCHANGED input

\* After a declined call the rule engine matches one of its own terminals
\* (or skips in error recovery) and moves on by at least one character.
Consume ==
  /\ last.called /\ ~last.ok
  /\ pos < Len(input)
  /\ \E n \in 1..(Len(input) - pos) :
       /\ pos' = pos + n
       /\ emitted' = emitted \o SubSeq(input, pos + 1, pos + n)
  /\ last' = NoCall
  /\ UNCHANGED <<input, saved>>

Next ==
  \/ \E valid \in SUBSET TokenType : Scan(valid)
  \/ Consume

Spec == Init /\ [][Next]_vars

\* ------------------------------------------------------------------------
\* Vocabulary of the properties
\* ------------------------------------------------------------------------

\* the character at position p of the input, NUL at end-of-stream
CharAt(p) == IF p < Len(input) THEN input[p + 1] ELSE NUL

\* the input continues with the characters of s at position p
HasPrefix(p, s) ==
  /\ p + Len(s) <= Len(input)
  /\ \A i \in 1..Len(s) : input[p + i] = s[i]

\* an enumerated opener prefix begins at position p
OpenerAt(p) ==
  \/ HasPrefix(p, <<"(", "#">>)
  \/ CharAt(p) = "#" /\ (CharAt(p + 1) \in Upper \/ CharAt(p + 1) = "_")
  \/ HasPrefix(p, <<"<", "B", "O">>) \/ HasPrefix(p, <<"<", "B", "_">>)
  \/ HasPrefix(p, <<"<", "I", "N">>)
  \/ HasPrefix(p, <<"<", "m", "u">>)
  \/ HasPrefix(p, <<"<", ":">>)
  \/ HasPrefix(p, <<"<", "/", "B", "O">>)
  \/ HasPrefix(p, <<"<", "/", "B", "_">>)
  \/ HasPrefix(p, <<"<", "/", "m", "u">>)
  \/ HasPrefix(p, <<"<", "/", "/", "B">>)
  \/ CharAt(p) = "["
  \/ CharAt(p) = "]"

\* space, tab, newline, carriage return
WsChars == {" ", "\t", "\n", "\r"}

\* the characters after which a whitespace run is structural
FollowSet == {"{", "|", ")", "*", ">", "/"}

\* the end of the maximal whitespace run that starts at position p
RECURSIVE RunEnd(_)
RunEnd(p) == IF CharAt(p) \in WsChars THEN RunEnd(p + 1) ELSE p

\* the call at the cursor returned true with this symbol
Accepted(sym) == last.called /\ last.ok /\ last.sym = sym

\* the call at the cursor returned false
Declined == last.called /\ ~last.ok

\* ------------------------------------------------------------------------
\* Properties
\* ------------------------------------------------------------------------

\* C1: whenever a call returns true (CONTENT_CHAR, SPIP_WS or
\* SHORTHAND_LBRACE), the token ends at least one character past the
\* position where the call started.
NoEmptySuccess ==
  last.called /\ last.ok =>
    /\ last.sym \in TokenType
    /\ last.end >= last.start + 1

\* a content token was accepted at the last character of the input, where
\* the lexer cannot advance past what it peeked
NoEmptySuccessWitness ==
  /\ Accepted(CONTENT_CHAR)
  /\ last.end = Len(input)
  /\ last.peek = Len(input)
  /\ last.start = Len(input) - 1

\* C2: the driving loop terminates: the cursor never moves back, never
\* passes the end of the input, and every call that returns true moves it
\* forward by at least one character, so there is at most one accepted
\* token per input character.
AcceptsBoundedByInput ==
  [][/\ pos' >= pos
     /\ pos' <= Len(input)
     /\ (last'.called /\ last'.ok => pos' > pos /\ pos' = last'.end)]_vars

\* the loop reached end-of-stream through an accepted token
AcceptsBoundedByInputWitness ==
  /\ last.called /\ last.ok
  /\ last.start > 0
  /\ pos = Len(input)

\* C3: a call that returns false commits nothing: the token end it leaves
\* is the position where the call started, and so is the cursor.
DeclineLeavesCursor ==
  Declined => last.end = last.start /\ pos = last.start

\* a call declined after reading three characters ahead
DeclineLeavesCursorWitness ==
  /\ Declined
  /\ last.peek >= last.start + 3

\* C4: at an enumerated opener prefix the call returns false for every set
\* of valid symbols.
OpenerPrecedence ==
  last.called /\ OpenerAt(last.start) => ~last.ok

\* the call declined at "#_" with every symbol valid
OpenerPrecedenceWitness ==
  /\ Declined
  /\ last.valid = TokenType
  /\ HasPrefix(last.start, <<"#", "_">>)

\* C5: a CONTENT_CHAR token is exactly one character long.
ContentIsOneChar ==
  Accepted(CONTENT_CHAR) => last.end = last.start + 1

\* C6: no CONTENT_CHAR token covers a position at which an enumerated
\* opener prefix begins.
ContentNeverCoversOpener ==
  Accepted(CONTENT_CHAR) =>
    \A p \in last.start..(last.end - 1) : ~OpenerAt(p)

\* C7: with SPIP_WS valid and whitespace at the cursor, the call returns
\* SPIP_WS if and only if the character after the maximal whitespace run is
\* one of "{", "|", ")", "*", ">", "/"; otherwise it returns false.
WhitespaceIffFollowSet ==
  last.called /\ SPIP_WS \in last.valid /\ CharAt(last.start) \in WsChars =>
    /\ last.ok <=> CharAt(RunEnd(last.start)) \in FollowSet
    /\ last.ok => last.sym = SPIP_WS

\* a run of three whitespace characters was accepted as SPIP_WS
WhitespaceIffFollowSetWitness ==
  /\ Accepted(SPIP_WS)
  /\ last.end >= last.start + 3
  /\ CharAt(last.end) \in FollowSet

\* C8: when the whitespace block returns false after a run of whitespace,
\* nothing of the run is committed: the token end and the cursor are where
\* the call started.
WhitespaceRollback ==
  Declined /\ SPIP_WS \in last.valid /\ CharAt(last.start) \in WsChars =>
    last.end = last.start /\ pos = last.start

\* the whitespace block declined after a run of three characters
WhitespaceRollbackWitness ==
  /\ Declined
  /\ SPIP_WS \in last.valid
  /\ CharAt(last.start) \in WsChars
  /\ last.peek >= last.start + 3

\* C9: with SHORTHAND_LBRACE valid and "{" at the cursor the call returns
\* a SHORTHAND_LBRACE token of exactly one character, whatever else is
\* valid.
ParamGate ==
  last.called /\ SHORTHAND_LBRACE \in last.valid /\ CharAt(last.start) = "{" =>
    /\ last.ok
    /\ last.sym = SHORTHAND_LBRACE
    /\ last.end = last.start + 1

\* "{" was accepted as SHORTHAND_LBRACE with every symbol valid
ParamGateWitness ==
  /\ Accepted(SHORTHAND_LBRACE)
  /\ last.valid = TokenType
  /\ CharAt(last.start) = "{"

\* C10: with SHORTHAND_LBRACE not valid and CONTENT_CHAR valid, "{" at the
\* cursor is accepted as CONTENT_CHAR, never as SHORTHAND_LBRACE.
BraceFallsToContent ==
  /\ last.called
  /\ SHORTHAND_LBRACE \notin last.valid
  /\ CONTENT_CHAR \in last.valid
  /\ CharAt(last.start) = "{"
  => last.ok /\ last.sym = CONTENT_CHAR

\* the "{" right after the shorthand balise "#B" was accepted as content
BraceFallsToContentWitness ==
  /\ Accepted(CONTENT_CHAR)
  /\ SHORTHAND_LBRACE \notin last.valid
  /\ last.start >= 2
  /\ HasPrefix(last.start - 2, <<"#", "B", "{">>)

\* C11: end-of-stream is terminal: a call made at end-of-stream returns
\* false for every set of valid symbols, and once the cursor is at
\* end-of-stream it stays there and no later call returns true.
EndOfStreamTerminal ==
  [][pos = Len(input) =>
       /\ pos' = Len(input)
       /\ (last'.called => ~last'.ok /\ last'.start = Len(input))]_vars

\* a call with every symbol valid declined at the end of a non-empty input
EndOfStreamTerminalWitness ==
  /\ Declined
  /\ last.valid = TokenType
  /\ last.start = Len(input)
  /\ Len(input) > 0

\* the text from position p on
Suffix(p) == SubSeq(input, p + 1, Len(input))

\* what a call at position p of the text in returns: the result, the symbol
\* and the length of the token
Outcome(in, valid, p) ==
  LET r == scan(in, valid, LexerAt(p)) IN
  [ok |-> r.ok, sym |-> r.sym, len |-> TokenEnd(r.lx) - p]

\* C12: the scanner keeps no memory: the outcome of every call, whatever
\* calls came before it, is the outcome of a first call on the text from
\* the cursor on with the same valid symbols, and the serialized scanner
\* state has length 0.
MemorylessOutcome ==
  /\ saved = 0
  /\ last.called =>
       [ok |-> last.ok, sym |-> last.sym, len |-> last.end - last.start]
         = Outcome(Suffix(last.start), last.valid, 0)

\* a call in the middle of the text, after an accepted token, declined at a
\* "#" tag
MemorylessOutcomeWitness ==
  /\ Declined
  /\ CONTENT_CHAR \in last.valid
  /\ last.start > 0
  /\ emitted = SubSeq(input, 1, last.start)
  /\ CharAt(last.start) = "#"

\* C13: the committed spans are contiguous and do not overlap: the text of
\* the tokens and constructs committed so far is the input up to the
\* cursor, an accepted token starts where its call started and leaves the
\* cursor at its end, so at end-of-stream the spans concatenate to the input.
RoundTrip ==
  /\ emitted = SubSeq(input, 1, pos)
  /\ last.called /\ last.ok => pos = last.end /\ last.start < last.end

\* a text of at least three characters was committed up to end-of-stream,
\* the last span being a token of the scanner
RoundTripWitness ==
  /\ pos = Len(input)
  /\ emitted = input
  /\ Len(input) >= 3
  /\ last.called /\ last.ok
  /\ last.start > 0

\* C14: "<B" and "</B" are openers only before "O" or "_": with only
\* CONTENT_CHAR valid, "<B" or "</B" followed by any other character is
\* accepted as content.
LoopPrefixNeedsOorUnderscore ==
  /\ last.called
  /\ last.valid = {CONTENT_CHAR}
  /\ \/ HasPrefix(last.start, <<"<", "B">>)
          /\ CharAt(last.start + 2) \notin {"O", "_", NUL}
     \/ HasPrefix(last.start, <<"<", "/", "B">>)
          /\ CharAt(last.start + 3) \notin {"O", "_", NUL}
  => Accepted(CONTENT_CHAR)

\* C15: wherever a call with CONTENT_CHAR valid declines before
\* end-of-stream because at_spip_start took the lookahead for an opener,
\* some alternative of template starts with a literal found at that
\* position.
NoStall ==
  /\ Declined
  /\ CONTENT_CHAR \in last.valid
  /\ ~(SPIP_WS \in last.valid /\ CharAt(last.start) \in WsChars)
  /\ last.start < Len(input)
  => \E lit \in template_starts : literal(input, last.start, lit)

\* C16: on "<p>#TITRE</p>" with only CONTENT_CHAR valid, the call at each
\* character of "<p>" and of "</p>" returns a CONTENT_CHAR token of one
\* character, and the call at "#TITRE" returns false.
ScenarioCTokens ==
  input = ScenarioC /\ last.called /\ last.valid = {CONTENT_CHAR} =>
    /\ last.start \in {0, 1, 2, 9, 10, 11, 12} =>
         Accepted(CONTENT_CHAR) /\ last.end = last.start + 1
    /\ last.start = 3 => Declined

\* the input is "#" and an uppercase tag name up to end-of-stream
ShorthandOnly ==
  /\ Len(input) >= 2
  /\ input[1] = "#"
  /\ input[2] \in Upper
  /\ \A i \in 3..Len(input) : input[i] \in Upper \cup Digit \cup {"_"}

\* C17: when the input is "#" and an uppercase tag name up to
\* end-of-stream, the call at "#" returns false for every set of valid
\* symbols, so that no CONTENT_CHAR token is emitted there, and
\* balise_shorthand matches the whole input.
ScenarioAOneConstruct ==
  ShorthandOnly =>
    /\ last.called /\ last.start = 0 => ~last.ok
    /\ balise_shorthand(input, 0) = Len(input)

\* on "#TITRE" the call at "#" declined with CONTENT_CHAR valid
ScenarioAOneConstructWitness ==
  /\ input = ScenarioA
  /\ Declined
  /\ last.valid = {CONTENT_CHAR}
  /\ last.start = 0
  /\ balise_shorthand(input, 0) = 6

\* the characters the opener table leaves to content
PlainPunctuation == {"{", "}", ")", "*", "|", ">"}

\* C19: when CONTENT_CHAR is the only valid symbol and the cursor is at one
\* of "{", "}", ")", "*", "|", ">", or at "(" not followed by "#", the call
\* returns a CONTENT_CHAR token that starts at the cursor and is not empty;
\* it never returns false.
PunctuationIsContent ==
  /\ last.called
  /\ last.valid = {CONTENT_CHAR}
  /\ \/ CharAt(last.start) \in PlainPunctuation
     \/ CharAt(last.start) = "(" /\ CharAt(last.start + 1) # "#"
  => /\ Accepted(CONTENT_CHAR)
     /\ last.end > last.start

\* a closing brace was accepted as content
PunctuationIsContentWitness ==
  /\ Accepted(CONTENT_CHAR)
  /\ last.valid = {CONTENT_CHAR}
  /\ CharAt(last.start) = "}"
  /\ last.end = last.start + 1

SymbolWasValid ==
  last.called =>
    /\ last.ok => last.sym \in TokenType /\ last.sym \in last.valid
    /\ last.valid = {} => ~last.ok
    /\ ~last.ok => last.sym = NoSymbol

\* a call with no valid symbol declined at a character that is content
\* whenever CONTENT_CHAR is valid
SymbolWasValidWitness ==
  /\ Declined
  /\ last.valid = {}
  /\ CharAt(last.start) = "x"

\* the number of calls of lexer->advance the last call made
Advances == scan(input, last.valid, LexerAt(last.start)).lx.n

\* the last call entered the SPIP_WS block
InWhitespaceBlock ==
  SPIP_WS \in last.valid /\ CharAt(last.start) \in WsChars

\* C23: a call that does not enter the SPIP_WS block calls advance at most
\* four times, so the lexer ends at most four characters after the cursor
\* and every character it read is among the five from the cursor on; a
\* call that enters the SPIP_WS block advances over the whitespace run and
\* reads the one character after it.
BoundedLookahead ==
  last.called =>
    /\ ~InWhitespaceBlock =>
         Advances <= 4 /\ last.peek <= last.start + 4
    /\ InWhitespaceBlock =>
         last.peek = RunEnd(last.start) /\ Advances = last.peek - last.start

\* a call outside the SPIP_WS block advanced four times: three to peek at
\* "<//" and what follows, one to consume
BoundedLookaheadWitness ==
  /\ Accepted(CONTENT_CHAR)
  /\ ~InWhitespaceBlock
  /\ Advances = 4
  /\ last.peek = last.start + 4

\* ------------------------------------------------------------------------
\* Brace blocks of the grammar: a second specification whose texts are
\* made of braces and text, and whose steps are the three block rules
\* ------------------------------------------------------------------------

\* longest text of braces and "a" that is enumerated
MaxBody == 8

\* Scenario D, and the same with a fourth pair inside
ScenarioD ==
  <<"{", "#", "E", "N", "V", "{", "n", "o", "m", "b", "r", "e", ",",
    "#", "C", "O", "N", "S", "T", "{", "_", "M", "A", "X", "}", "}", "}">>

ScenarioD4 ==
  <<"{", "#", "E", "N", "V", "{", "n", "o", "m", "b", "r", "e", ",",
    "#", "C", "O", "N", "S", "T", "{", "_", "M", "A", "X", "{", "a", "}",
    "}", "}", "}">>

BraceInputs ==
  UNION {SeqsOfLen({"{", "}", "a"}, n) : n \in 0..MaxBody}
    \cup {ScenarioD, ScenarioD4}

InitBrace ==
  /\ input \in BraceInputs
  /\ pos = 0
  /\ last = NoCall
  /\ emitted = <<>>
  /\ saved = 0

\* a parameter block of a balise or a filter is matched at the cursor
MatchBaliseParams ==
  /\ balise_params(input, pos) # NoMatch
  /\ pos' = balise_params(input, pos)
  /\ emitted' = emitted \o SubSeq(input, pos + 1, balise_params(input, pos))
  /\ UNCHANGED <<input, last, saved>>

\* a criteria block of a loop is matched at the cursor
MatchCriteria ==
  /\ criteria(input, pos) # NoMatch
  /\ pos' = criteria(input, pos)
  /\ emitted' = emitted \o SubSeq(input, pos + 1, criteria(input, pos))
  /\ UNCHANGED <<input, last, saved>>

\* a parameter block of an include is matched at the cursor
MatchIncludeParamBlock ==
  /\ include_param_block(input, pos) # NoMatch
  /\ pos' = include_param_block(input, pos)
  /\ emitted' = emitted \o SubSeq(input, pos + 1, include_param_block(input, pos))
  /\ UNCHANGED <<input, last, saved>>

NextBrace ==
  \/ MatchBaliseParams
  \/ MatchCriteria
  \/ MatchIncludeParamBlock

SpecBrace == InitBrace /\ [][NextBrace]_vars

\* "{" count minus "}" count in the first k characters of the input
RECURSIVE Level(_)
Level(k) ==
  IF k = 0 THEN 0
  ELSE Level(k - 1) + (IF input[k] = "{" THEN 1 ELSE IF input[k] = "}" THEN -1 ELSE 0)

\* the input is one brace pair and what it encloses, balanced
OnePair ==
  /\ Len(input) >= 2
  /\ input[1] = "{"
  /\ \A k \in 1..(Len(input) - 1) : Level(k) >= 1
  /\ Level(Len(input)) = 0

\* deepest nesting of the input, the outermost pair counted
MaxDepth ==
  CHOOSE d \in 0..Len(input) :
    /\ \A k \in 0..Len(input) : Level(k) <= d
    /\ \E k \in 0..Len(input) : Level(k) = d

\* C18: a block is matched whole by balise_params exactly when it is one
\* balanced brace pair nested at most three deep, the outermost pair
\* counted; criteria and include_param_block match the same blocks except
\* the empty pair; so a block with a fourth nested pair is never matched
\* whole, and every block a step has consumed whole is balanced and at
\* most three deep.
NestingBalancesToThree ==
  /\ balise_params(input, 0) = Len(input) <=> OnePair /\ MaxDepth <= 3
  /\ criteria(input, 0) = Len(input)
       <=> OnePair /\ MaxDepth <= 3 /\ Len(input) > 2
  /\ include_param_block(input, 0) = Len(input)
       <=> OnePair /\ MaxDepth <= 3 /\ Len(input) > 2
  /\ pos > 0 => Level(pos) = 0 /\ \A k \in 0..pos : Level(k) \in 0..3

NestingBalancesToThreeWitness ==
  /\ input = ScenarioD
  /\ MaxDepth = 3
  /\ pos = Len(input)
  /\ emitted = input

\* ------------------------------------------------------------------------
\* The three texts of the scanner side by side: a specification whose
\* calls go to any of the three scan functions of scanner.c
\* ------------------------------------------------------------------------

\* whitespace before the openers the third text spells out further
VariantCorpus ==
  {<<" ", "<", "B", "O", "U">>,
   <<" ", "<", "/", "B", "O", "U">>,
   <<" ", "<", "/", "m", "u", "l", "t", "i", ">">>,
   <<" ", "#", "T", "I", "T", "R", "E">>}

InitVariants ==
  /\ input \in Inputs \cup VariantCorpus
  /\ pos = 0
  /\ last = NoCall
  /\ emitted = <<>>
  /\ saved = 0

\* one call of the scan function of the second text at the cursor
Scan_2(valid) ==
  LET r == scan_2(input, valid, LexerAt(pos)) IN
  /\ last' = [called |-> TRUE, start |-> pos, valid |-> valid, ok |-> r.ok,
              sym |-> r.sym, end |-> TokenEnd(r.lx), peek |-> r.lx.cur]
  /\ pos' = IF r.ok THEN TokenEnd(r.lx) ELSE pos
  /\ emitted' = IF r.ok
                THEN emitted \o SubSeq(input, r.lx.start + 1, TokenEnd(r.lx))
                ELSE emitted
  /\ saved' = IF r.ok THEN serialize(create) ELSE saved
  /\ UNCHANGED input

\* one call of the scan function of the third text at the cursor
Scan_3(valid) ==
  LET r == scan_3(input, valid, LexerAt(pos)) IN
  /\ last' = [called |-> TRUE, start |-> pos, valid |-> valid, ok |-> r.ok,
              sym |-> r.sym, end |-> TokenEnd(r.lx), peek |-> r.lx.cur]
  /\ pos' = IF r.ok THEN TokenEnd(r.lx) ELSE pos
  /\ emitted' = IF r.ok
                THEN emitted \o SubSeq(input, r.lx.start + 1, TokenEnd(r.lx))
                ELSE emitted
  /\ saved' = IF r.ok THEN serialize(create) ELSE saved
  /\ UNCHANGED input

NextVariants ==
  \/ \E valid \in SUBSET TokenType : Scan(valid)
  \/ \E valid \in SUBSET {CONTENT_CHAR, SPIP_WS} : Scan_2(valid)
  \/ \E valid \in SUBSET {CONTENT_CHAR, SPIP_WS} : Scan_3(valid)
  \/ Consume

SpecVariants == InitVariants /\ [][NextVariants]_vars

\* C22: in each of the three scan functions an accepted SPIP_WS token is
\* exactly the maximal run of whitespace that starts at the cursor: it
\* ends where the run ends and holds no character of what follows.
WhitespaceSpanIsRun ==
  Accepted(SPIP_WS) =>
    /\ CharAt(last.start) \in WsChars
    /\ last.end = RunEnd(last.start)
    /\ \A k \in last.start..(last.end - 1) : CharAt(k) \in WsChars

\* ------------------------------------------------------------------------
\* The lexer of the grammar: a specification in which, after the scanner
\* has declined, one terminal of the grammar is matched at the cursor
\* ------------------------------------------------------------------------

\* longest text that is enumerated
MaxLex == 3

\* one text for each pattern, and texts a pattern must not match
LexCorpus ==
  {<<"t", "e", "x", "t", "e", " ", "]">>,
   <<"1", "0", "r", "e", "c", "e", "n", "t", "s", "(">>,
   <<"A", "R", "T", "I", "C", "L", "E", "S", ")">>,
   <<"p", "a", "r", " ", "d", "a", "t", "e", "}">>,
   <<"[", "f", "r", "]", "t">>,
   <<"{", "e", "n", "}", "E">>,
   <<"a", "<", "b", "<", "/", "p", "<", "/", "m">>,
   <<"m", "o", "d", ":", "c", "l", "e", "|", "f", ":", ">">>,
   <<"_", "l", "o", "o", "p", ":", "T">>,
   <<"T", "I", "T", "R", "E", "_", "1", "*", "*", ")">>,
   <<"*", "*", "*">>,
   <<"=", "=", "{", "1", "}">>,
   <<"<", "B", "O", "U", "C", "L", "E", "_", "a", "(", "A", ")", ">">>}

LexInputs ==
  UNION {SeqsOfLen({"A", "a", "1", "_", "*", "{", ":", "<"}, n) : n \in 0..MaxLex}
    \cup LexCorpus

InitLex ==
  /\ input \in LexInputs
  /\ pos = 0
  /\ last = NoCall
  /\ emitted = <<>>
  /\ saved = 0

\* after a decline the lexer matches a string literal at the cursor
LexLiteral(lit) ==
  /\ last.called /\ ~last.ok
  /\ literal_end(lit, input, pos) # NoMatch
  /\ pos' = literal_end(lit, input, pos)
  /\ emitted' = emitted \o SubSeq(input, pos + 1, literal_end(lit, input, pos))
  /\ last' = [NoCall EXCEPT !.sym = "literal", !.start = pos,
                            !.end = literal_end(lit, input, pos)]
  /\ UNCHANGED <<input, saved>>

\* after a decline the lexer matches the pattern of the rule t at the cursor
LexPattern(t) ==
  /\ last.called /\ ~last.ok
  /\ pattern(t, input, pos) # NoMatch
  /\ pos' = pattern(t, input, pos)
  /\ emitted' = emitted \o SubSeq(input, pos + 1, pattern(t, input, pos))
  /\ last' = [NoCall EXCEPT !.sym = t, !.start = pos,
                            !.end = pattern(t, input, pos)]
  /\ UNCHANGED <<input, saved>>

NextLex ==
  \/ \E valid \in SUBSET TokenType : Scan(valid)
  \/ \E lit \in Literals : LexLiteral(lit)
  \/ \E t \in Patterns : LexPattern(t)

SpecLex == InitLex /\ [][NextLex]_vars

\* the last step matched a terminal of the grammar
Lexed == ~last.called /\ last.sym # NoSymbol

\* C24: no terminal of the grammar matches the empty string at any
\* position of any text, and so every terminal the lexer has matched after
\* a decline of the scanner moved the cursor by at least one character.
TerminalsNeverEmpty ==
  /\ \A p \in 0..Len(input) :
       /\ \A lit \in Literals : literal_end(lit, input, p) # p
       /\ \A t \in Patterns : pattern(t, input, p) # p
  /\ Lexed => last.end > last.start /\ pos = last.end

\* the pattern of loop_type, written with a star, matched one character
TerminalsNeverEmptyWitness ==
  /\ Lexed
  /\ last.sym = "loop_type"
  /\ last.end = last.start + 1
  /\ CharAt(last.end) \notin Upper \cup Lower \cup Digit \cup {"_"}

====
